---- MODULE Spec2Model ----
(***************************************************************************)
(* Model of CCS200.py: the class Spectrometer, a ctypes wrapper around the *)
(* vendor library TLCCS_64.dll.  The wrapper's fields (lib, ccs_handle),   *)
(* the buffers get_scan_data allocates, the outcome each operation hands   *)
(* to its caller and the calls each operation makes across the call        *)
(* boundary are the state.  The vendor library is the environment: every   *)
(* call into it returns a success status, returns a failure status, or     *)
(* raises, chosen nondeterministically.                                    *)
(***************************************************************************)
EXTENDS Integers, Sequences, FiniteSets, TLC

VARIABLES
    pc,          \* "new": before Spectrometer(); "ready": object built; "failed": __init__ raised
    lib,         \* self.lib
    ccs_handle,  \* self.ccs_handle.value
    result,      \* what the last operation handed to its caller
    lastCalls,   \* the calls the last operation made across the boundary, in order
    called,      \* every vendor function invoked so far
    heap,        \* the buffers handed to the caller so far, by allocation order
    scans,       \* the tuples successful get_scan_data calls returned, oldest first
    closeCalled, \* close() has been invoked at least once
    initWrote,   \* tlccs_init stored a session handle through its byref argument
    nOps         \* public operations invoked after construction

vars == <<pc, lib, ccs_handle, result, lastCalls, called, heap, scans, closeCalled,
          initWrote, nOps>>

----------------------------------------------------------------------------
(* Bounds of the model *)

\* public operations invoked on one Spectrometer object
MaxOps == 4

\* get_scan_data calls among them
MaxScans == 2

(* Program constants *)

\* (c_double * 3648)()
NumPixels == 3648

\* self.ccs_handle = c_int(0)
InitialHandle == 0

----------------------------------------------------------------------------
(* The environment: what a call across the boundary can do *)

\* exceptions the ctypes boundary raises: OSError (LoadLibrary, chdir, access
\* violation), AttributeError (symbol missing from the DLL)
ExcKinds == {"OSError", "AttributeError"}

\* a vendor call returns VI_SUCCESS ("ok"), returns an error status ("err"), or raises
VendorOutcomes == {"ok", "err"} \cup ExcKinds

\* os.chdir and LoadLibrary return or raise
LoadOutcomes == {"ok"} \cup ExcKinds

\* session handles tlccs_init may write through byref(self.ccs_handle)
Handles == {7}

\* wavelengths (nm) the vendor library writes for a pixel
WavelengthData == {400}

\* intensities the vendor library writes for a pixel
IntensityData == {1, 2}

\* the kind of Python value a caller passes as time_in_seconds
TimeInputs == {"float", "str"}

Raised(out) == out \in ExcKinds

----------------------------------------------------------------------------
(* Calls across the boundary *)

\* one call: the wrapper method making it, the function called, the session
\* handle passed (<<>> when the function takes none), whether the handle goes
\* by reference, and what the call did
Call(method, fn, handle, byref, out) ==
    [method |-> method, fn |-> fn, handle |-> handle, byref |-> byref, out |-> out]

\* os.chdir and cdll.LoadLibrary belong to the host, not to the vendor library
HostFns == {"os.chdir", "LoadLibrary"}

VendorFnsOf(calls) ==
    {calls[i].fn : i \in {j \in DOMAIN calls : calls[j].fn \notin HostFns}}

\* as Executed, with the statement that raised tried once more
ExecutedRetry(plan) ==
    LET raising == {i \in DOMAIN plan : Raised(plan[i].out)}
    IN  IF raising = {} THEN plan
        ELSE LET first == CHOOSE i \in raising : \A j \in raising : i <= j
             IN  SubSeq(plan, 1, first) \o <<plan[first]>>

\* as Executed, with every statement run whatever the earlier ones did
ExecutedAll(plan) == plan

\* a try block (and __init__'s two method calls in a row) runs its statements
\* in order and stops at the first one that raises
Executed(plan) ==
    LET raising == {i \in DOMAIN plan : Raised(plan[i].out)}
    IN  IF raising = {} THEN plan
        ELSE LET first == CHOOSE i \in raising : \A j \in raising : i <= j
             IN  SubSeq(plan, 1, first)

\* the exception the executed statements ended with, "none" if they all returned
RaisedBy(done) ==
    IF done # <<>> /\ Raised(done[Len(done)].out) THEN done[Len(done)].out ELSE "none"

\* the method whose try block the exception was raised in
RaisedIn(done, method) ==
    IF done # <<>> /\ Raised(done[Len(done)].out) THEN done[Len(done)].method ELSE method

----------------------------------------------------------------------------
(* except Exception as e: raise RuntimeError(<prefix> + str(e)) *)

\* the classes derived from Exception among those the boundary raises
ExceptionSubclasses == {"OSError", "AttributeError", "TypeError"}

CaughtOSErrorOnly(kind) == kind = "OSError"

\* except Exception
Caught(kind) == kind \in ExceptionSubclasses

MessagePrefix(method) ==
    CASE method = "_load_library"        -> "Failed to load spectrometer DLL: "
      [] method = "_initialize_device"   -> "Failed to initialize spectrometer: "
      [] method = "set_integration_time" -> "Failed to set integration time: "
      [] method = "start_scan"           -> "Failed to start scan: "
      [] method = "get_scan_data"        -> "Failed to retrieve scan data: "
      [] method = "close"                -> "Failed to close spectrometer: "

\* str(e): the text the exception carries, one per class here
StrOf(kind) ==
    CASE kind = "OSError"        -> "[WinError 126] The specified module could not be found"
      [] kind = "AttributeError" -> "function not found"
      [] kind = "TypeError"      -> "must be real number, not str"

\* the operation returns `value` to its caller
Return(op, value) ==
    [op |-> op, kind |-> "return", exc |-> "none", msg |-> <<>>, value |-> value]

\* the handler of `method`, entered with exception `kind`; an exception the
\* except clause does not match leaves the method as it is
Handler(op, method, kind) ==
    IF Caught(kind)
    THEN [op |-> op, kind |-> "raise", exc |-> "RuntimeError",
          msg |-> <<MessagePrefix(method), StrOf(kind)>>, value |-> <<>>]
    ELSE [op |-> op, kind |-> "raise", exc |-> kind,
          msg |-> <<StrOf(kind)>>, value |-> <<>>]

\* what the operation hands to its caller: None (<<>>), a tuple, or an exception
Outcome(op, method, exc, value) ==
    IF exc = "none" THEN Return(op, value) ELSE Handler(op, method, exc)

----------------------------------------------------------------------------
(* Buffers *)

\* A ctypes array is kept as its length and the value its elements hold: a new
\* array is zero-filled, and the vendor library is taken to store one value
\* in every element of the array it fills.

ShortBuffer == [length |-> NumPixels - 1, fill |-> 0]

\* (c_double * 3648)(): a zero-filled array
NewBuffer == [length |-> NumPixels, fill |-> 0]

\* the vendor library fills the buffer it is given by reference when it
\* succeeds and leaves it alone otherwise
VendorWrite(buf, out, v) == IF out = "ok" THEN [buf EXCEPT !.fill = v] ELSE buf

\* the two buffers of a call stored over those of the call before
HeapAfterScanReuse(h, w, d) ==
    IF Len(h) >= 2 THEN SubSeq(h, 1, Len(h) - 2) \o <<w, d>> ELSE h \o <<w, d>>

\* each call allocates its two buffers anew; those of earlier calls stay with
\* whoever holds them
HeapAfterScan(h, w, d) == h \o <<w, d>>

\* np.ctypeslib.as_array: an array sharing the memory of buffer `id`, as long
\* as the buffer
as_array(h, id) == [base |-> id, shape |-> h[id].length]

----------------------------------------------------------------------------
(* The wrapper *)

DllName == "TLCCS_64.dll"

HandleArgFresh == <<InitialHandle>>

\* self.ccs_handle as an argument
HandleArg == <<ccs_handle>>

RejectedAfterClose(method) == closeCalled

\* no method looks at what was called before: none is refused
Rejected(method) == FALSE

\* a public method can be called on a Spectrometer object that exists
CanCall(method) == pc = "ready" /\ nOps < MaxOps /\ ~Rejected(method)

ConstructPlanInitFirst(chdirOut, loadOut, initOut) ==
    << Call("_initialize_device", "tlccs_init", <<InitialHandle>>, TRUE, initOut),
       Call("_load_library", "os.chdir", <<>>, FALSE, chdirOut),
       Call("_load_library", "LoadLibrary", <<>>, FALSE, loadOut) >>

\* __init__: _load_library(), then _initialize_device()
ConstructPlan(chdirOut, loadOut, initOut) ==
    << Call("_load_library", "os.chdir", <<>>, FALSE, chdirOut),
       Call("_load_library", "LoadLibrary", <<>>, FALSE, loadOut),
       Call("_initialize_device", "tlccs_init", <<InitialHandle>>, TRUE, initOut) >>

Init ==
    /\ pc = "new"
    /\ lib = "None"
    /\ ccs_handle = InitialHandle
    /\ result = Return("none", <<>>)
    /\ lastCalls = <<>>
    /\ called = {}
    /\ heap = <<>>
    /\ scans = <<>>
    /\ closeCalled = FALSE
    /\ initWrote = FALSE
    /\ nOps = 0

\* Spectrometer(): __init__ with _load_library and _initialize_device
Construct(chdirOut, loadOut, initOut, wrote, h) ==
    /\ pc = "new"
    /\ LET done   == Executed(ConstructPlan(chdirOut, loadOut, initOut))
           exc    == RaisedBy(done)
           loaded == \E i \in DOMAIN done : done[i].fn = "LoadLibrary" /\ done[i].out = "ok"
           inited == \E i \in DOMAIN done : done[i].fn = "tlccs_init" /\ ~Raised(done[i].out)
       IN  /\ lib' = IF loaded THEN DllName ELSE "None"
           /\ ccs_handle' = IF inited /\ wrote THEN h ELSE InitialHandle
           /\ initWrote' = (inited /\ wrote)
           /\ result' = Outcome("__init__", RaisedIn(done, "__init__"), exc, <<>>)
           /\ pc' = IF result'.kind = "return" THEN "ready" ELSE "failed"
           /\ lastCalls' = done
           /\ called' = called \cup VendorFnsOf(done)
    /\ UNCHANGED <<heap, scans, closeCalled, nOps>>

\* c_double(time_in_seconds)
c_double(t) == IF t = "str" THEN "TypeError" ELSE "none"

SetIntegrationTimePlan(out) ==
    << Call("set_integration_time", "tlccs_setIntegrationTime", HandleArg, FALSE, out) >>

set_integration_time(t, out) ==
    /\ CanCall("set_integration_time")
    /\ LET conv == c_double(t)
           done == IF conv = "none" THEN Executed(SetIntegrationTimePlan(out)) ELSE <<>>
           exc  == IF conv = "none" THEN RaisedBy(done) ELSE conv
       IN  /\ result' = Outcome("set_integration_time", "set_integration_time", exc, <<>>)
           /\ lastCalls' = done
           /\ called' = called \cup VendorFnsOf(done)
    /\ nOps' = nOps + 1
    /\ UNCHANGED <<pc, lib, ccs_handle, heap, scans, closeCalled, initWrote>>

StartScanPlan(out) ==
    << Call("start_scan", "tlccs_startScan", HandleArg, FALSE, out) >>

start_scan(out) ==
    /\ CanCall("start_scan")
    /\ LET done == Executed(StartScanPlan(out))
       IN  /\ result' = Outcome("start_scan", "start_scan", RaisedBy(done), <<>>)
           /\ lastCalls' = done
           /\ called' = called \cup VendorFnsOf(done)
    /\ nOps' = nOps + 1
    /\ UNCHANGED <<pc, lib, ccs_handle, heap, scans, closeCalled, initWrote>>

GetScanDataPlan(wOut, dOut) ==
    << Call("get_scan_data", "tlccs_getWavelengthData", HandleArg, FALSE, wOut),
       Call("get_scan_data", "tlccs_getScanData", HandleArg, FALSE, dOut) >>

get_scan_data(wOut, dOut, wv, dv) ==
    /\ CanCall("get_scan_data")
    /\ Len(scans) < MaxScans
    /\ LET done        == Executed(GetScanDataPlan(wOut, dOut))
           exc         == RaisedBy(done)
           wavelengths == VendorWrite(NewBuffer, wOut, wv)
           data_array  == VendorWrite(NewBuffer, dOut, dv)
           after       == HeapAfterScan(heap, wavelengths, data_array)
           tuple       == << as_array(after, Len(after) - 1), as_array(after, Len(after)) >>
       IN  /\ result' = Outcome("get_scan_data", "get_scan_data", exc, tuple)
           /\ lastCalls' = done
           /\ called' = called \cup VendorFnsOf(done)
           /\ heap' = IF exc = "none" THEN after ELSE heap
           /\ scans' = IF exc = "none" THEN Append(scans, tuple) ELSE scans
    /\ nOps' = nOps + 1
    /\ UNCHANGED <<pc, lib, ccs_handle, closeCalled, initWrote>>

ClosePlanReset(out) ==
    << Call("close", "tlccs_reset", HandleArg, FALSE, out) >>

ClosePlan(out) ==
    << Call("close", "tlccs_close", HandleArg, FALSE, out) >>

close(out) ==
    /\ CanCall("close")
    /\ LET done == Executed(ClosePlan(out))
       IN  /\ result' = Outcome("close", "close", RaisedBy(done), <<>>)
           /\ lastCalls' = done
           /\ called' = called \cup VendorFnsOf(done)
    /\ closeCalled' = TRUE
    /\ nOps' = nOps + 1
    /\ UNCHANGED <<pc, lib, ccs_handle, heap, scans, initWrote>>

Next ==
    \/ \E chdirOut \in LoadOutcomes, loadOut \in LoadOutcomes, initOut \in VendorOutcomes,
          wrote \in BOOLEAN, h \in Handles :
           Construct(chdirOut, loadOut, initOut, wrote, h)
    \/ \E t \in TimeInputs, out \in VendorOutcomes : set_integration_time(t, out)
    \/ \E out \in VendorOutcomes : start_scan(out)
    \/ \E wOut \in VendorOutcomes, dOut \in VendorOutcomes, wv \in WavelengthData, dv \in IntensityData :
           get_scan_data(wOut, dOut, wv, dv)
    \/ \E out \in VendorOutcomes : close(out)

Spec == Init /\ [][Next]_vars

----------------------------------------------------------------------------
(* Properties *)

Last(seq) == seq[Len(seq)]

\* C1: whenever the library load or a vendor call of an operation raises, the
\* operation ends by raising RuntimeError whose message starts with the prefix
\* of the method the call was made in; it does not return and lets no other
\* exception class out.
C1_FailureRaisesRuntimeError ==
    \A i \in DOMAIN lastCalls :
        Raised(lastCalls[i].out) =>
            /\ result.kind = "raise"
            /\ result.exc = "RuntimeError"
            /\ Len(result.msg) = 2
            /\ result.msg[1] = MessagePrefix(lastCalls[i].method)
            /\ \A m \in {"_load_library", "_initialize_device", "set_integration_time",
                         "start_scan", "get_scan_data", "close"} :
                   m # lastCalls[i].method => result.msg[1] # MessagePrefix(m)

C1_Witness ==
    /\ result.op = "get_scan_data"
    /\ lastCalls # <<>>
    /\ Last(lastCalls).out = "AttributeError"
    /\ result.exc = "RuntimeError"

\* C2: the status a vendor function returns reaches the caller of the
\* operation: when a vendor call returns a failure status without raising,
\* the operation does not hand its caller what it hands it on success (None).
C2_FailureStatusObservable ==
    ( /\ result.kind = "return"
      /\ result.op \in {"__init__", "set_integration_time", "start_scan", "close"}
      /\ lastCalls # <<>>
      /\ Last(lastCalls).out = "err" )
    => result.value # <<>>

\* C3: no vendor function is called before the library is loaded: during
\* construction LoadLibrary has returned before tlccs_init is called, a failed
\* load ends construction with an exception and without tlccs_init, and no
\* operation is ever made on an object whose construction raised.
C3_LoadBeforeVendorCalls ==
    /\ called # {} => lib = DllName
    /\ \A i \in DOMAIN lastCalls :
           lastCalls[i].fn \notin HostFns =>
               \/ result.op # "__init__"
               \/ \E j \in 1..(i - 1) :
                      lastCalls[j].fn = "LoadLibrary" /\ lastCalls[j].out = "ok"
    /\ (pc # "new" /\ lib = "None") =>
           /\ pc = "failed"
           /\ result.kind = "raise"
           /\ called = {}
    /\ pc = "failed" => nOps = 0

C3_Witness ==
    /\ pc = "failed"
    /\ lastCalls # <<>>
    /\ Last(lastCalls).fn = "LoadLibrary"
    /\ Raised(Last(lastCalls).out)

\* C4: every successful get_scan_data returns a tuple of exactly two arrays,
\* the wavelengths first and the intensities second, each 3648 long, whatever
\* the vendor calls reported and however many calls came before.
C4_TwoBuffersOfFixedLength ==
    /\ \A s \in DOMAIN scans :
           /\ Len(scans[s]) = 2
           /\ \A k \in 1..2 :
                  /\ scans[s][k].shape = 3648
                  /\ heap[scans[s][k].base].length = 3648
           /\ heap[scans[s][1].base].fill \in WavelengthData \cup {0}
           /\ heap[scans[s][2].base].fill \in IntensityData \cup {0}
    /\ (result.op = "get_scan_data" /\ result.kind = "return") =>
           /\ scans # <<>>
           /\ result.value = Last(scans)

C4_Witness ==
    /\ Len(scans) = 2
    /\ result.op = "get_scan_data"
    /\ result.kind = "return"
    /\ heap[result.value[1].base].fill = 400
    /\ heap[result.value[2].base].fill = 0

\* C5 as stated: the two buffers are overwritten on each get_scan_data call,
\* so the arrays an earlier call returned are the storage the next call fills
\* and their earlier contents are gone.
C5_BuffersOverwritten ==
    \A s \in DOMAIN scans :
        s + 1 \in DOMAIN scans =>
            /\ scans[s][1].base = scans[s + 1][1].base
            /\ scans[s][2].base = scans[s + 1][2].base

\* C5 as amended: each get_scan_data call allocates two new buffers; the
\* buffers an earlier call handed to the caller are none of them, and no
\* later operation changes their contents or the tuples that refer to them.
C5_EarlierBuffersSurvive ==
    [][ /\ \A b \in DOMAIN heap : b \in DOMAIN heap' /\ heap'[b] = heap[b]
        /\ \A s \in DOMAIN scans : s \in DOMAIN scans' /\ scans'[s] = scans[s]
        /\ Len(scans') > Len(scans) =>
               \A k \in 1..2 : Last(scans')[k].base \notin DOMAIN heap ]_vars

C5_Witness ==
    /\ Len(scans) = 2
    /\ result.op = "get_scan_data"
    /\ heap[scans[1][2].base].fill = 1
    /\ heap[scans[2][2].base].fill = 2

C7_NoRetry ==
    /\ \A i \in DOMAIN lastCalls : \A j \in DOMAIN lastCalls :
           i # j => lastCalls[i].fn # lastCalls[j].fn
    /\ \A i \in DOMAIN lastCalls : Raised(lastCalls[i].out) => i = Len(lastCalls)
    /\ VendorFnsOf(lastCalls) \subseteq
           CASE result.op = "__init__"             -> {"tlccs_init"}
             [] result.op = "set_integration_time" -> {"tlccs_setIntegrationTime"}
             [] result.op = "start_scan"           -> {"tlccs_startScan"}
             [] result.op = "get_scan_data"        -> {"tlccs_getWavelengthData",
                                                       "tlccs_getScanData"}
             [] result.op = "close"                -> {"tlccs_close"}
             [] OTHER                              -> {}

C7_Witness ==
    /\ result.op = "start_scan"
    /\ result.kind = "raise"
    /\ Len(lastCalls) = 1
    /\ nOps >= 2

\* C8: within one get_scan_data call tlccs_getWavelengthData is called first
\* and tlccs_getScanData second; when tlccs_getWavelengthData raises,
\* tlccs_getScanData is not called and the caller gets an exception and no
\* buffers.
C8_WavelengthsBeforeScanData ==
    result.op = "get_scan_data" =>
        /\ lastCalls # <<>>
        /\ lastCalls[1].fn = "tlccs_getWavelengthData"
        /\ \A i \in DOMAIN lastCalls :
               lastCalls[i].fn = "tlccs_getScanData" => i = 2
        /\ Raised(lastCalls[1].out) =>
               /\ Len(lastCalls) = 1
               /\ result.kind = "raise"
               /\ result.value = <<>>

C8_Witness ==
    /\ result.op = "get_scan_data"
    /\ Len(lastCalls) = 1
    /\ Raised(lastCalls[1].out)
    /\ result.kind = "raise"
    /\ scans # <<>>

\* C9: the wrapper keeps no open/closed state: once close() has been called
\* (and returned or raised), set_integration_time, start_scan, get_scan_data
\* and close are still enabled (within the bounds of the model), and an
\* operation made after it still makes its vendor call with the same handle.
C9_NoOpenClosedState ==
    (pc = "ready" /\ closeCalled) =>
        /\ nOps < MaxOps =>
               /\ ENABLED (\E t \in TimeInputs, out \in VendorOutcomes :
                               set_integration_time(t, out))
               /\ ENABLED (\E out \in VendorOutcomes : start_scan(out))
               /\ ENABLED (\E out \in VendorOutcomes : close(out))
               /\ Len(scans) < MaxScans =>
                      ENABLED (\E wOut \in VendorOutcomes, dOut \in VendorOutcomes,
                                  wv \in WavelengthData, dv \in IntensityData :
                                   get_scan_data(wOut, dOut, wv, dv))
        /\ \A i \in DOMAIN lastCalls : lastCalls[i].handle = <<ccs_handle>>
        /\ lastCalls = <<>> =>
               /\ result.op = "set_integration_time"
               /\ result.msg = <<MessagePrefix("set_integration_time"), StrOf("TypeError")>>

C9_Witness ==
    /\ closeCalled
    /\ result.op = "get_scan_data"
    /\ result.kind = "return"
    /\ Len(lastCalls) = 2

\* C10: after construction no operation changes lib or ccs_handle, and every
\* vendor call is passed, by value, the handle tlccs_init was given by
\* reference, which is 0 when tlccs_init stored nothing in it.
C10_FieldsUnchanged ==
    [][ /\ (pc' = "ready" /\ ~initWrote') => ccs_handle' = 0
        /\ pc' = "ready" => lib' = "TLCCS_64.dll"
        /\ pc = "ready" =>
               /\ lib' = lib
               /\ ccs_handle' = ccs_handle
               /\ \A i \in DOMAIN lastCalls' :
                      /\ lastCalls'[i].handle = <<ccs_handle>>
                      /\ ~lastCalls'[i].byref ]_vars

C10_Witness ==
    /\ pc = "ready"
    /\ initWrote
    /\ ccs_handle = 7
    /\ nOps >= 2
    /\ lastCalls # <<>>
    /\ result.op = "close"

====
